---- MODULE Spec2Model ----
(***************************************************************************)
(* Model of packages/processor/processor.py: the MessageProcessor that     *)
(* connects to RabbitMQ with retries, binds an exclusive queue to a topic  *)
(* exchange and stores every delivered JSON message in its own file.       *)
(*                                                                         *)
(* Text is modelled as a sequence of symbols.  File names and routing keys *)
(* are sequences of characters; message bodies and file contents are       *)
(* sequences of lexical tokens (a JSON punctuation mark, a whole string    *)
(* literal, a whole number literal, a run of white space, or an undecodable*)
(* byte).  print() to standard output is modelled as a step that has no    *)
(* effect on the state and never raises.                                   *)
(***************************************************************************)
EXTENDS Integers, Sequences, FiniteSets

(***************************************************************************)
(* Bounds of the model.                                                    *)
(***************************************************************************)
MaxDeliveries == 2
MaxInterrupts == 1

(***************************************************************************)
(* Program constants.                                                      *)
(***************************************************************************)
max_retries == 5
retry_delay == 5

\* os.getenv('OUTPUT_FOLDER', './messages')
output_folder == <<".", "/", "m", "e", "s", "s", "a", "g", "e", "s">>

\* the binding pattern 'expense.*' of queue_bind: its fixed prefix
BindingPrefix == <<"e", "x", "p", "e", "n", "s", "e", ".">>

(***************************************************************************)
(* Routing keys a producer may publish with.                               *)
(***************************************************************************)
PublishedKeys ==
    { BindingPrefix \o <<"a">>,
      BindingPrefix \o <<"b">>,
      BindingPrefix \o <<"a", "/", "b">>,
      BindingPrefix \o <<"a", ".", "b">>,
      <<"o", ".", "a">> }

\* Topic matching against 'expense.*': the prefix "expense." followed by
\* exactly one word, a word being a non-empty run of characters without ".".
IsPrefix(p, s) == Len(p) <= Len(s) /\ SubSeq(s, 1, Len(p)) = p

MatchesBinding(key) ==
    /\ IsPrefix(BindingPrefix, key)
    /\ Len(key) > Len(BindingPrefix)
    /\ \A i \in (Len(BindingPrefix) + 1)..Len(key) : key[i] # "."

RoutingKeys == { k \in PublishedKeys : MatchesBinding(k) }

(***************************************************************************)
(* datetime.now().strftime('%Y%m%d_%H%M%S_%f')                             *)
(***************************************************************************)
Digit(n) ==
    CASE n = 0 -> "0" [] n = 1 -> "1" [] n = 2 -> "2" [] n = 3 -> "3"
      [] n = 4 -> "4" [] n = 5 -> "5" [] n = 6 -> "6" [] n = 7 -> "7"
      [] n = 8 -> "8" [] n = 9 -> "9"

RECURSIVE ZeroPad(_, _)
ZeroPad(n, width) ==
    IF width = 0 THEN <<>>
    ELSE ZeroPad(n \div 10, width - 1) \o <<Digit(n % 10)>>

\* The instants the local clock may show when a message is handled.  The
\* local clock is not monotonic, so any of them may be read at any call.
Clock ==
    { [year |-> 2024, month |-> 1, day |-> 2, hour |-> 3, minute |-> 4,
       second |-> 5, microsecond |-> 0],
      [year |-> 2024, month |-> 1, day |-> 2, hour |-> 3, minute |-> 4,
       second |-> 50, microsecond |-> 120] }

strftime(now) ==
    ZeroPad(now.year, 4) \o ZeroPad(now.month, 2) \o ZeroPad(now.day, 2)
      \o <<"_">>
      \o ZeroPad(now.hour, 2) \o ZeroPad(now.minute, 2)
      \o ZeroPad(now.second, 2)
      \o <<"_">>
      \o ZeroPad(now.microsecond, 6)

\* a variant of Filename: the file is named by the timestamp alone
FilenameWithoutKey(timestamp, routing_key) ==
    timestamp \o <<".", "j", "s", "o", "n">>

\* f"{timestamp}_{method.routing_key}.json"
Filename(timestamp, routing_key) ==
    timestamp \o <<"_">> \o routing_key \o <<".", "j", "s", "o", "n">>

\* os.path.join(self.output_folder, filename): the file name never starts
\* with "/" (it starts with the year) and the folder does not end with "/".
PathJoin(folder, filename) == folder \o <<"/">> \o filename

Filepath(now, routing_key) ==
    PathJoin(output_folder, Filename(strftime(now), routing_key))

\* The directory part of a path: everything before its last "/".
LastSlash(path) ==
    LET S == { i \in 1..Len(path) : path[i] = "/" }
    IN  IF S = {} THEN 0 ELSE CHOOSE i \in S : \A j \in S : j <= i

Dirname(path) ==
    IF LastSlash(path) = 0 THEN <<>> ELSE SubSeq(path, 1, LastSlash(path) - 1)

(***************************************************************************)
(* JSON.  Token classes of the bodies the model delivers.                  *)
(***************************************************************************)
StrToks == { "\"amount\"", "\"food\"", "\"a\"" }
NumToks == { "42", "1" }
WsToks  == { " ", "\n", "  " }
BadByte == "0xFF"

Scalar(kind, tok) == [t |-> kind, s |-> tok, m |-> <<>>]
Object(members)   == [t |-> "obj", s |-> "", m |-> members]
NoValue           == [t |-> "none", s |-> "", m |-> <<>>]

\* bytes.decode('utf-8'): raises on an undecodable byte, else the same text
DecodeOk(body) == \A i \in 1..Len(body) : body[i] # BadByte

RECURSIVE SkipWs(_)
SkipWs(s) ==
    IF s # <<>> /\ Head(s) \in WsToks THEN SkipWs(Tail(s)) ELSE s

\* dict[key] = value: a repeated key keeps its first position and takes the
\* last value
RECURSIVE DictSet(_, _, _)
DictSet(members, key, val) ==
    IF members = <<>> THEN << <<key, val>> >>
    ELSE IF Head(members)[1] = key
         THEN << <<key, val>> >> \o Tail(members)
         ELSE << Head(members) >> \o DictSet(Tail(members), key, val)

Fail == [ok |-> FALSE, val |-> NoValue, rest |-> <<>>]

RECURSIVE ParseValue(_)
RECURSIVE ParseMembers(_, _)

\* json.loads' value scanner, for scalars and (nested) objects
ParseValue(s) ==
    LET s0 == SkipWs(s)
    IN  IF s0 = <<>> THEN Fail
        ELSE IF Head(s0) \in NumToks
             THEN [ok |-> TRUE, val |-> Scalar("num", Head(s0)), rest |-> Tail(s0)]
        ELSE IF Head(s0) \in StrToks
             THEN [ok |-> TRUE, val |-> Scalar("str", Head(s0)), rest |-> Tail(s0)]
        ELSE IF Head(s0) = "{"
             THEN LET s1 == SkipWs(Tail(s0))
                  IN  IF s1 # <<>> /\ Head(s1) = "}"
                      THEN [ok |-> TRUE, val |-> Object(<<>>), rest |-> Tail(s1)]
                      ELSE ParseMembers(s1, <<>>)
        ELSE Fail

\* the members of an object after "{" : key ":" value ("," key ":" value)* "}"
ParseMembers(s, acc) ==
    LET s0 == SkipWs(s)
    IN  IF s0 = <<>> \/ Head(s0) \notin StrToks THEN Fail
        ELSE LET key == Head(s0)
                 s1  == SkipWs(Tail(s0))
             IN  IF s1 = <<>> \/ Head(s1) # ":" THEN Fail
                 ELSE LET r  == ParseValue(Tail(s1))
                          s2 == SkipWs(r.rest)
                          m  == DictSet(acc, key, r.val)
                      IN  IF ~r.ok \/ s2 = <<>> THEN Fail
                          ELSE IF Head(s2) = "}"
                               THEN [ok |-> TRUE, val |-> Object(m), rest |-> Tail(s2)]
                          ELSE IF Head(s2) = ","
                               THEN ParseMembers(Tail(s2), m)
                          ELSE Fail

\* json.loads(text): one value, nothing but white space after it
LoadsOk(text) ==
    LET r == ParseValue(text) IN r.ok /\ SkipWs(r.rest) = <<>>

Loads(text) == ParseValue(text).val

RECURSIVE Indent(_)
Indent(depth) == IF depth = 0 THEN <<>> ELSE <<"  ">> \o Indent(depth - 1)

RECURSIVE Dumps(_, _)
RECURSIVE DumpMembers(_, _)

\* json.dump(message, f, indent=2): the text written for a value at a depth
Dumps(v, depth) ==
    IF v.t # "obj" THEN <<v.s>>
    ELSE IF v.m = <<>> THEN <<"{", "}">>
    ELSE <<"{", "\n">> \o DumpMembers(v.m, depth + 1)
           \o <<"\n">> \o Indent(depth) \o <<"}">>

DumpMembers(members, depth) ==
    LET first == Indent(depth) \o <<Head(members)[1], ":", " ">>
                   \o Dumps(Head(members)[2], depth)
    IN  IF Len(members) = 1 THEN first
        ELSE first \o <<",", "\n">> \o DumpMembers(Tail(members), depth)

(***************************************************************************)
(* Message bodies a producer may publish.                                  *)
(***************************************************************************)
Bodies ==
    { <<"{", "\"amount\"", ":", " ", "42", ",", " ",
        "\"a\"", ":", "{", "\"a\"", ":", "1", "}", ",", "\n",
        "\"amount\"", ":", "\"food\"", "}">>,
      <<"{", "not", " ", "json">>,
      <<"{", BadByte, "}">> }

(***************************************************************************)
(* State.                                                                  *)
(***************************************************************************)
VARIABLES
    pc,           \* position of the main program (__main__, connect, start_consuming)
    attempt,      \* loop variable of connect's retry loop
    connection,   \* self.connection: "unset", "open" or "closed"
    channel,      \* self.channel: "unset" or "open"
    openConns,    \* broker connections opened by the processor and not closed
    attempts,     \* connection attempts made by the connect() call in progress
    failures,     \* attempts of that call that raised
    sleeps,       \* calls of time.sleep(retry_delay) by that call
    delay,        \* seconds that call has slept in total
    assignedAt,   \* the attempt of that call (counted from 1) that assigned
                  \* self.connection and self.channel, 0 when it assigned none
    setupCalls,   \* channel set-up calls made, in order
    shutdownCalls,\* calls made by the KeyboardInterrupt branch, in order
    exitStatus,   \* -1 while running, else the exit status of the process
    interrupts,   \* SIGINTs received
    interruptedAt,\* position of the main program at the last SIGINT, else "none"
    hpc,          \* position of the running callback, "idle" when none runs
    message,      \* the callback's local variable message
    deliveries,   \* one record per delivered message, indexed by delivery tag
    dirs,         \* existing directories
    files         \* existing files: path |-> content

vars == <<pc, attempt, connection, channel, openConns, attempts, failures,
          sleeps, delay, assignedAt, setupCalls, shutdownCalls, exitStatus, interrupts,
          interruptedAt, hpc, message, deliveries, dirs, files>>

connVars == <<attempt, connection, channel, openConns, attempts, failures,
              sleeps, delay, assignedAt>>
handlerVars == <<hpc, message, deliveries, dirs, files>>

\* the delivery the running callback was invoked for
Tag == Len(deliveries)

Delivery(key, body) ==
    [routing_key |-> key, body |-> body,
     before  |-> files,     \* the files when the callback was invoked
     path    |-> <<>>,      \* filepath, once computed
     opened  |-> FALSE,     \* open(filepath, 'w') returned
     written |-> FALSE,     \* json.dump returned and the file was closed
     ioError |-> FALSE,     \* the operating system reported an I/O error
     acks    |-> 0,         \* calls of basic_ack for this delivery tag
     nacks   |-> 0,         \* calls of basic_nack(requeue=False) for it
     requeues |-> 0,        \* calls of basic_nack(requeue=True) for it
     settled |-> "none",    \* the call that returned: "ack", "nack", "requeue"
     end     |-> "running"] \* "returned", "raised" or "interrupted"

\* open(path, 'w') followed by writing content
WriteFile(fs, path, content) ==
    [p \in (DOMAIN fs) \cup {path} |-> IF p = path THEN content ELSE fs[p]]

Init ==
    /\ pc = "init"
    /\ attempt = 0
    /\ connection = "unset"
    /\ channel = "unset"
    /\ openConns = 0
    /\ attempts = 0
    /\ failures = 0
    /\ sleeps = 0
    /\ delay = 0
    /\ assignedAt = [connection |-> 0, channel |-> 0]
    /\ setupCalls = <<>>
    /\ shutdownCalls = <<>>
    /\ exitStatus = -1
    /\ interrupts = 0
    /\ interruptedAt = "none"
    /\ hpc = "idle"
    /\ message = NoValue
    /\ deliveries = <<>>
    /\ dirs = {output_folder}      \* os.makedirs(self.output_folder, exist_ok=True)
    /\ files = <<>>

(***************************************************************************)
(* connect()                                                               *)
(***************************************************************************)
\* processor.connect() is called; the loop starts with attempt = 0
ConnectEnter ==
    /\ pc = "init"
    /\ pc' = "attempt"
    /\ attempt' = 0
    /\ UNCHANGED <<connection, channel, openConns, attempts, failures, sleeps,
                   delay, assignedAt, setupCalls, shutdownCalls, exitStatus, interrupts,
                   interruptedAt>>
    /\ UNCHANGED handlerVars

\* self.connection = pika.BlockingConnection(parameters)
OpenConnection ==
    /\ pc = "attempt"
    /\ attempts' = attempts + 1
    /\ \E ok \in BOOLEAN :
         IF ok
         THEN /\ connection' = "open"
              /\ openConns' = openConns + 1
              /\ assignedAt' = [assignedAt EXCEPT !.connection = attempts']
              /\ pc' = "channel"
              /\ UNCHANGED failures
         ELSE /\ pc' = "except"
              /\ failures' = failures + 1
              /\ UNCHANGED <<connection, openConns, assignedAt>>
    /\ UNCHANGED <<attempt, channel, sleeps, delay, setupCalls, shutdownCalls,
                   exitStatus, interrupts,
                   interruptedAt>>
    /\ UNCHANGED handlerVars

\* self.channel = self.connection.channel(); break
OpenChannel ==
    /\ pc = "channel"
    /\ \E ok \in BOOLEAN :
         IF ok
         THEN /\ channel' = "open"
              /\ assignedAt' = [assignedAt EXCEPT !.channel = attempts]
              /\ pc' = "exchange_declare"
              /\ UNCHANGED failures
         ELSE /\ pc' = "except"
              /\ failures' = failures + 1
              /\ UNCHANGED <<channel, assignedAt>>
    /\ UNCHANGED <<attempt, connection, openConns, attempts, sleeps, delay,
                   setupCalls, shutdownCalls, exitStatus, interrupts,
                   interruptedAt>>
    /\ UNCHANGED handlerVars

\* a variant of RetryAllowed: the last attempt is retried as well
RetryAllowedOffByOne(a) == a < max_retries

\* whether the except branch of connect sleeps and retries
RetryAllowed(a) == a < max_retries - 1

\* a variant of SleepSeconds: the delay grows with the attempt number
SleepSecondsBackoff(a) == retry_delay * (a + 1)

\* time.sleep(retry_delay): the seconds slept after failed attempt a
SleepSeconds(a) == retry_delay

\* a variant of LastFailureReraises: after the last failed attempt the loop
\* just ends and connect() goes on with the channel set-up
LastFailureFallsThrough == FALSE

\* whether the except branch ends with raise when no retry is left
LastFailureReraises == TRUE

\* except Exception: sleep and retry, or re-raise after the last attempt
ConnectExcept ==
    /\ pc = "except"
    /\ IF RetryAllowed(attempt)
       THEN /\ sleeps' = sleeps + 1
            /\ delay' = delay + SleepSeconds(attempt)
            /\ attempt' = attempt + 1
            /\ pc' = "attempt"
            /\ UNCHANGED exitStatus
       ELSE /\ IF LastFailureReraises
               THEN pc' = "exit" /\ exitStatus' = 1
               ELSE pc' = "exchange_declare" /\ UNCHANGED exitStatus
            /\ UNCHANGED <<sleeps, delay, attempt>>
    /\ UNCHANGED <<connection, channel, openConns, attempts, failures,
                   assignedAt, setupCalls, shutdownCalls, interrupts, interruptedAt>>
    /\ UNCHANGED handlerVars

\* the step after a channel set-up call
NextSetup(step) ==
    CASE step = "exchange_declare" -> "queue_declare"
      [] step = "queue_declare"    -> "queue_bind"
      [] step = "queue_bind"       -> "basic_consume"
      [] step = "basic_consume"    -> "consuming"

\* exchange_declare, queue_declare, queue_bind (the rest of connect) and
\* basic_consume (the first call of start_consuming); an exception raised by
\* any of them is not caught and ends the process
Setup ==
    /\ pc \in {"exchange_declare", "queue_declare", "queue_bind", "basic_consume"}
    /\ setupCalls' = Append(setupCalls, pc)
    /\ \E ok \in BOOLEAN :
         IF ok
         THEN pc' = NextSetup(pc) /\ UNCHANGED exitStatus
         ELSE pc' = "exit" /\ exitStatus' = 1
    /\ IF pc' = "basic_consume"
       THEN \* connect() returns: its loop variable and the counts of the call end
            /\ attempt' = 0
            /\ attempts' = 0
            /\ failures' = 0
            /\ sleeps' = 0
            /\ delay' = 0
            /\ assignedAt' = [connection |-> 0, channel |-> 0]
       ELSE UNCHANGED <<attempt, attempts, failures, sleeps, delay, assignedAt>>
    /\ UNCHANGED <<connection, channel, openConns, shutdownCalls, interrupts,
                   interruptedAt>>
    /\ UNCHANGED handlerVars

(***************************************************************************)
(* callback(ch, method, properties, body)                                  *)
(***************************************************************************)
\* a variant of DispatchAllowed: deliveries are dispatched as they arrive
DispatchAllowedAlways == TRUE

\* channel.start_consuming() runs the callback in the thread that called it
\* and reads the next delivery only when the callback is not running
DispatchAllowed == hpc = "idle"

\* channel.start_consuming() dispatches the next delivery to the callback;
\* the queue only receives keys that match the binding
Deliver ==
    /\ pc = "consuming"
    /\ DispatchAllowed
    /\ Len(deliveries) < MaxDeliveries
    /\ \E key \in RoutingKeys, body \in Bodies :
         deliveries' = Append(deliveries, Delivery(key, body))
    /\ hpc' = "loads"
    /\ message' = NoValue
    /\ UNCHANGED <<pc, setupCalls, shutdownCalls, exitStatus, interrupts,
                   interruptedAt, dirs, files>>
    /\ UNCHANGED connVars

\* a variant of HandlerStepAfter: the message is acknowledged as soon as the
\* file is open, before it is written
HandlerStepAckFirst(step) ==
    CASE step = "loads" -> "open"
      [] step = "open"  -> "ack"
      [] step = "dump"  -> "ack"

\* the statement of the try block that follows a statement that did not raise
HandlerStepAfter(step) ==
    CASE step = "loads" -> "open"
      [] step = "open"  -> "dump"
      [] step = "dump"  -> "ack"

\* message = json.loads(body.decode('utf-8'))
HandlerLoads ==
    /\ hpc = "loads"
    /\ LET body == deliveries[Tag].body
       IN  IF DecodeOk(body) /\ LoadsOk(body)
           THEN message' = Loads(body) /\ hpc' = HandlerStepAfter("loads")
           ELSE message' = message /\ hpc' = "except"
    /\ UNCHANGED <<pc, setupCalls, shutdownCalls, exitStatus, interrupts,
                   interruptedAt, deliveries, dirs, files>>
    /\ UNCHANGED connVars

\* timestamp, filename, filepath = ...; open(filepath, 'w'): creates or
\* truncates the file; raises when the directory of the path does not exist
\* or the operating system reports an error
HandlerOpen ==
    /\ hpc = "open"
    /\ \E now \in Clock, ioError \in BOOLEAN :
         LET filepath == Filepath(now, deliveries[Tag].routing_key)
         IN  IF ~ioError /\ Dirname(filepath) \in dirs
             THEN /\ files' = WriteFile(files, filepath, <<>>)
                  /\ deliveries' = [deliveries EXCEPT ![Tag].path = filepath,
                                                      ![Tag].opened = TRUE]
                  /\ hpc' = HandlerStepAfter("open")
             ELSE /\ files' = files
                  /\ deliveries' = [deliveries EXCEPT ![Tag].path = filepath,
                                                      ![Tag].ioError = ioError]
                  /\ hpc' = "except"
    /\ UNCHANGED <<pc, setupCalls, shutdownCalls, exitStatus, interrupts,
                   interruptedAt, message, dirs>>
    /\ UNCHANGED connVars

\* json.dump(message, f, indent=2) and the close at the end of the with
\* block; an I/O error leaves the part of the text that had been written
HandlerDump ==
    /\ hpc = "dump"
    /\ LET filepath == deliveries[Tag].path
           text     == Dumps(message, 0)
       IN  \E ioError \in BOOLEAN :
             IF ~ioError
             THEN /\ files' = WriteFile(files, filepath, text)
                  /\ deliveries' = [deliveries EXCEPT ![Tag].written = TRUE]
                  /\ hpc' = HandlerStepAfter("dump")
             ELSE /\ files' = WriteFile(files, filepath,
                                        SubSeq(text, 1, Len(text) - 1))
                  /\ deliveries' = [deliveries EXCEPT ![Tag].ioError = TRUE]
                  /\ hpc' = "except"
    /\ UNCHANGED <<pc, setupCalls, shutdownCalls, exitStatus, interrupts,
                   interruptedAt, message, dirs>>
    /\ UNCHANGED connVars

\* print(f"Message saved: ..."); ch.basic_ack(delivery_tag=...)
HandlerAck ==
    /\ hpc = "ack"
    /\ \E ok \in BOOLEAN :
         IF ok
         THEN /\ deliveries' = [deliveries EXCEPT ![Tag].acks = @ + 1,
                                                  ![Tag].settled = "ack",
                                                  ![Tag].end = "returned"]
              /\ hpc' = "idle"
         ELSE /\ deliveries' = [deliveries EXCEPT ![Tag].acks = @ + 1]
              /\ hpc' = "except"
    /\ UNCHANGED <<pc, setupCalls, shutdownCalls, exitStatus, interrupts,
                   interruptedAt, message, dirs, files>>
    /\ UNCHANGED connVars

\* a variant of NackRequeue: the rejected message goes back to the queue
NackRequeueTrue == TRUE

\* the requeue argument of the basic_nack call
NackRequeue == FALSE

\* a variant of ExceptReraises: the except clause ends with a raise statement
ExceptReraisesAlways == TRUE

\* whether the except clause of callback re-raises after basic_nack
ExceptReraises == FALSE

\* except Exception: print(...); ch.basic_nack(delivery_tag=..., requeue=False).
\* An exception raised by basic_nack leaves the callback and start_consuming
\* (it is no KeyboardInterrupt) and ends the process.
HandlerNack ==
    /\ hpc = "except"
    /\ hpc' = "idle"
    /\ \E ok \in BOOLEAN :
         LET called == IF NackRequeue
                       THEN [deliveries EXCEPT ![Tag].requeues = @ + 1]
                       ELSE [deliveries EXCEPT ![Tag].nacks = @ + 1]
             done   == [called EXCEPT ![Tag].settled =
                           IF ~ok THEN @
                           ELSE IF NackRequeue THEN "requeue" ELSE "nack"]
         IN  IF ok /\ ~ExceptReraises
             THEN /\ deliveries' = [done EXCEPT ![Tag].end = "returned"]
                  /\ UNCHANGED <<pc, exitStatus>>
             ELSE /\ deliveries' = [done EXCEPT ![Tag].end = "raised"]
                  /\ pc' = "exit"
                  /\ exitStatus' = 1
    /\ UNCHANGED <<setupCalls, shutdownCalls, interrupts, interruptedAt,
                   message, dirs, files>>
    /\ UNCHANGED connVars

\* channel.start_consuming() raises because the broker connection was lost
\* while waiting for a delivery; the exception is not caught
ConsumeFail ==
    /\ pc = "consuming"
    /\ hpc = "idle"
    /\ pc' = "exit"
    /\ exitStatus' = 1
    /\ UNCHANGED <<setupCalls, shutdownCalls, interrupts, interruptedAt>>
    /\ UNCHANGED connVars
    /\ UNCHANGED handlerVars

(***************************************************************************)
(* SIGINT: Python raises KeyboardInterrupt in the main thread at the       *)
(* statement it is executing.                                              *)
(***************************************************************************)
\* a variant of ShutdownStep: the connection is closed before the consumer
\* is stopped
ShutdownStepCloseFirst(n) == IF n = 1 THEN "close" ELSE "stop_consuming"

\* the n-th statement of the except KeyboardInterrupt branch
ShutdownStep(n) == IF n = 1 THEN "stop_consuming" ELSE "close"

\* whether a KeyboardInterrupt raised at this position of the main program
\* is caught by the except KeyboardInterrupt clause of start_consuming
InterruptCaught(at) == at = "consuming"

Interrupt ==
    /\ pc # "exit"
    /\ interrupts < MaxInterrupts
    /\ interrupts' = interrupts + 1
    /\ interruptedAt' = pc
    /\ IF InterruptCaught(pc)
       THEN \* raised inside channel.start_consuming(), possibly inside the
            \* callback, whose except Exception does not catch it
            /\ pc' = ShutdownStep(1)
            /\ UNCHANGED exitStatus
       ELSE \* not caught: traceback, exit status of a killed process
            /\ pc' = "exit"
            /\ exitStatus' = 130
    /\ IF hpc # "idle"
       THEN /\ hpc' = "idle"
            /\ deliveries' = [deliveries EXCEPT ![Tag].end = "interrupted"]
       ELSE UNCHANGED <<hpc, deliveries>>
    /\ UNCHANGED <<setupCalls, shutdownCalls, message, dirs, files>>
    /\ UNCHANGED connVars

(***************************************************************************)
(* start_consuming(): the except KeyboardInterrupt branch                  *)
(***************************************************************************)
\* the statement after the n-th one; after the last, start_consuming returns
\* and the script ends with status 0
AfterShutdownStep(n) == IF n = 1 THEN ShutdownStep(2) ELSE "exit"

\* self.channel.stop_consuming()
StopConsuming ==
    /\ pc = "stop_consuming"
    /\ shutdownCalls' = Append(shutdownCalls, "stop_consuming")
    /\ \E ok \in BOOLEAN :
         IF ok
         THEN /\ pc' = AfterShutdownStep(Len(shutdownCalls) + 1)
              /\ exitStatus' = IF pc' = "exit" THEN 0 ELSE exitStatus
         ELSE pc' = "exit" /\ exitStatus' = 1
    /\ UNCHANGED <<setupCalls, interrupts, interruptedAt>>
    /\ UNCHANGED connVars
    /\ UNCHANGED handlerVars

\* self.connection.close()
CloseConnection ==
    /\ pc = "close"
    /\ shutdownCalls' = Append(shutdownCalls, "close")
    /\ \E ok \in BOOLEAN :
         IF ok
         THEN /\ connection' = "closed"
              /\ openConns' = openConns - 1
              /\ pc' = AfterShutdownStep(Len(shutdownCalls) + 1)
              /\ exitStatus' = IF pc' = "exit" THEN 0 ELSE exitStatus
         ELSE /\ pc' = "exit"
              /\ exitStatus' = 1
              /\ UNCHANGED <<connection, openConns>>
    /\ UNCHANGED <<attempt, channel, attempts, failures, sleeps, delay,
                   assignedAt, setupCalls, interrupts, interruptedAt>>
    /\ UNCHANGED handlerVars

Next ==
    \/ ConnectEnter
    \/ OpenConnection
    \/ OpenChannel
    \/ ConnectExcept
    \/ Setup
    \/ Deliver
    \/ HandlerLoads
    \/ HandlerOpen
    \/ HandlerDump
    \/ HandlerAck
    \/ HandlerNack
    \/ ConsumeFail
    \/ Interrupt
    \/ StopConsuming
    \/ CloseConnection

Spec == Init /\ [][Next]_vars

(***************************************************************************)
(* The lifecycle state of the consumer, read off the program position.     *)
(***************************************************************************)
Lifecycle ==
    CASE pc = "init" -> "INIT"
      [] pc \in {"attempt", "channel", "except"} -> "CONNECTING"
      [] pc \in {"exchange_declare", "queue_declare", "queue_bind",
                 "basic_consume"} -> "CONNECTED"
      [] pc = "consuming" -> "CONSUMING"
      [] pc \in {"stop_consuming", "close"} -> "SHUTTING_DOWN"
      [] pc = "exit" /\ exitStatus = 0 -> "CLOSED"
      [] OTHER -> "FAILED"

TypeOK ==
    /\ pc \in {"init", "attempt", "channel", "except", "exchange_declare",
               "queue_declare", "queue_bind", "basic_consume", "consuming",
               "stop_consuming", "close", "exit"}
    /\ attempt \in 0..(max_retries - 1)
    /\ hpc \in {"idle", "loads", "open", "dump", "ack", "except"}
    /\ exitStatus \in {-1, 0, 1, 130}
    /\ Len(deliveries) <= MaxDeliveries

(***************************************************************************)
(* Properties of the callback.                                             *)
(***************************************************************************)
Tags == 1..Len(deliveries)

\* the callback invoked for delivery i has ended on its own: it returned, or
\* an exception of one of its own statements left it
Ended(i) == deliveries[i].end \in {"returned", "raised"}

\* the callback invoked for the last delivery has ended and no later
\* delivery has been dispatched
LastEnded == deliveries # <<>> /\ hpc = "idle" /\ Ended(Tag)

\* the body of delivery i is UTF-8 text that parses as JSON
WellFormed(i) == DecodeOk(deliveries[i].body) /\ LoadsOk(deliveries[i].body)

\* settlement calls made for delivery i
Settlements(i) ==
    deliveries[i].acks + deliveries[i].nacks + deliveries[i].requeues

\* the paths whose file differs between two states of the file system
Changed(fs1, fs2) ==
    { p \in (DOMAIN fs1) \cup (DOMAIN fs2) :
        \/ p \notin DOMAIN fs1
        \/ p \notin DOMAIN fs2
        \/ fs1[p] # fs2[p] }

\* C1: every callback invocation that has ended has made exactly one
\* settlement call for its delivery tag: one basic_ack or one
\* basic_nack(requeue=False), never both and never neither.
C1_ExactlyOneSettlement ==
    \A i \in Tags :
        Ended(i) =>
            /\ deliveries[i].acks + deliveries[i].nacks = 1
            /\ deliveries[i].requeues = 0

\* C2: for a well-formed JSON body and a routing key matching expense.*,
\* when the operating system reports no I/O error, the ended invocation has
\* written exactly one file, the file parses to the value the body parses
\* to, and basic_ack was called for the delivery.
C2_FileAndAck ==
    ( /\ LastEnded
      /\ WellFormed(Tag)
      /\ MatchesBinding(deliveries[Tag].routing_key)
      /\ ~deliveries[Tag].ioError )
    => /\ deliveries[Tag].written
       /\ Changed(deliveries[Tag].before, files) \subseteq {deliveries[Tag].path}
       /\ deliveries[Tag].path \in DOMAIN files
       /\ LoadsOk(files[deliveries[Tag].path])
       /\ Loads(files[deliveries[Tag].path]) = Loads(deliveries[Tag].body)
       /\ deliveries[Tag].acks = 1

\* C3: an invocation whose body fails UTF-8 decoding or JSON parsing never
\* opens a file and leaves the output directory as it found it, and when it
\* has ended it has called basic_nack(requeue=False) once, and never
\* basic_ack or basic_nack(requeue=True).
C3_DecodeFailureRejected ==
    \A i \in Tags :
        ~WellFormed(i) =>
            /\ ~deliveries[i].opened
            /\ deliveries[i].path = <<>>
            /\ (i = Tag => files = deliveries[i].before /\ dirs = {output_folder})
            /\ Ended(i) =>
                  /\ deliveries[i].nacks = 1
                  /\ deliveries[i].acks = 0
                  /\ deliveries[i].requeues = 0

\* C3's case: one body that is not UTF-8 and one that is not JSON were both
\* rejected, after a file had been written for neither
C3_Witness ==
    /\ Len(deliveries) = 2
    /\ ~DecodeOk(deliveries[1].body)
    /\ DecodeOk(deliveries[2].body) /\ ~LoadsOk(deliveries[2].body)
    /\ \A i \in Tags : deliveries[i].end = "returned" /\ deliveries[i].nacks = 1
    /\ files = <<>>

(***************************************************************************)
(* Properties of connect().                                                *)
(***************************************************************************)
\* connect() has left its retry loop through the break and is setting up
\* the channel
Connected == pc \in {"exchange_declare", "queue_declare", "queue_bind"}

\* C4: when connect() has left the retry loop connected after N failed
\* attempts, then N < 5, it made exactly N + 1 attempts and slept exactly N
\* times, 5 * N seconds in all, both handles are open, and the channel
\* set-up is what it does next: nothing of it was called before.
C4_ConnectedAfterRetries ==
    /\ Connected =>
         /\ failures < 5
         /\ attempts = failures + 1
         /\ sleeps = failures
         /\ delay = 5 * failures
         /\ connection = "open"
         /\ channel = "open"
    /\ pc = "exchange_declare" => setupCalls = <<>>
    /\ setupCalls # <<>> => channel = "open"

\* C4's case: connected at the fifth attempt, after four failures, and the
\* exchange has been declared
C4_Witness ==
    /\ pc = "queue_declare"
    /\ failures = 4
    /\ delay = 20
    /\ setupCalls = <<"exchange_declare">>

\* C5: connect() never makes a sixth connection attempt, and once five
\* attempts have failed it only re-raises: the process ends with a non-zero
\* status (FAILED) after four sleeps, and no channel set-up call and no
\* consuming ever happens.
C5_FatalAfterFiveAttempts ==
    /\ attempts <= 5
    /\ failures <= 5
    /\ failures = 5 =>
         /\ attempts = 5
         /\ sleeps = 4
         /\ pc \in {"except", "exit"}
         /\ pc = "exit" => exitStatus \notin {-1, 0} /\ Lifecycle = "FAILED"
         /\ setupCalls = <<>>
         /\ deliveries = <<>>

\* C5's case: the fifth attempt failed and the error ended the process
C5_Witness ==
    /\ failures = 5
    /\ pc = "exit"
    /\ exitStatus = 1
    /\ interrupts = 0

(***************************************************************************)
(* Properties of the consume loop and of the shutdown.                     *)
(***************************************************************************)
\* C6: a step in which basic_nack returns for a message whose handling had
\* failed leaves the consumer consuming, with the callback returned and the
\* process running; and every callback that ended for a later delivery made
\* a settlement call.
C6_FailureIsNotFatal ==
    /\ [][ ( /\ hpc = "except"
             /\ deliveries[Tag].settled = "none"
             /\ deliveries'[Tag].settled # "none" )
           => ( /\ pc' = "consuming"
                /\ hpc' = "idle"
                /\ exitStatus' = -1
                /\ deliveries'[Tag].end = "returned" ) ]_vars
    /\ [](\A i \in Tags : \A j \in Tags :
            (i < j /\ deliveries[i].settled = "nack" /\ Ended(j))
                => Settlements(j) >= 1)

\* C6's case: the first message could not be written and was rejected, the
\* second one was then stored and acknowledged, and the consumer goes on
C6_Witness ==
    /\ Len(deliveries) = 2
    /\ deliveries[1].ioError /\ deliveries[1].settled = "nack"
    /\ deliveries[2].written /\ deliveries[2].settled = "ack"
    /\ pc = "consuming"
    /\ hpc = "idle"

\* C7: when the consume loop has been left, no callback invocation was cut
\* short by the interrupt: every delivered message had its callback run to
\* its end.
C7_HandlerCompletes ==
    \A i \in Tags : deliveries[i].end # "interrupted"

\* C8: the shutdown calls are stop_consuming first and close after it; the
\* shutdown path is entered only by a step that receives an interrupt while
\* consuming, and such a step always enters it.
C8_OrderedShutdown ==
    /\ [](/\ shutdownCalls \in {<<>>, <<"stop_consuming">>,
                                 <<"stop_consuming", "close">>}
          /\ pc = "close" => shutdownCalls = <<"stop_consuming">>
          /\ connection = "closed" =>
                shutdownCalls = <<"stop_consuming", "close">>)
    /\ [][ (Lifecycle' = "SHUTTING_DOWN" /\ Lifecycle # "SHUTTING_DOWN")
           => (interrupts' = interrupts + 1 /\ Lifecycle = "CONSUMING") ]_vars
    /\ [][ (pc = "consuming" /\ interrupts' # interrupts)
           => pc' = "stop_consuming" ]_vars

\* C8's case: a message was rejected while consuming, which did not start a
\* shutdown; the interrupt did, and both calls were made in order
C8_Witness ==
    /\ shutdownCalls = <<"stop_consuming", "close">>
    /\ connection = "closed"
    /\ exitStatus = 0
    /\ interruptedAt = "consuming"
    /\ \E i \in Tags : deliveries[i].settled = "nack"

\* C9: a process interrupted while connecting, setting up or consuming ends
\* with the connection closed and exit status 0, and a process ends with a
\* non-zero status only when the connection retries are exhausted.
C9_InterruptAlwaysGraceful ==
    pc = "exit" =>
        /\ interruptedAt \in {"attempt", "channel", "except", "exchange_declare",
                              "queue_declare", "queue_bind", "basic_consume",
                              "consuming"}
             => (exitStatus = 0 /\ connection = "closed")
        /\ exitStatus # 0 => failures = 5

(***************************************************************************)
(* Properties of the file names.                                           *)
(***************************************************************************)
\* C10: two deliveries with distinct routing keys never get the same file
\* path, whatever their timestamps; and the invocation for the last delivery
\* has not touched the file of an earlier delivery with another routing key.
C10_DistinctKeysDistinctPaths ==
    \A i \in Tags : \A j \in Tags :
        ( /\ i < j
          /\ deliveries[i].routing_key # deliveries[j].routing_key
          /\ deliveries[i].path # <<>>
          /\ deliveries[j].path # <<>> )
        => /\ deliveries[i].path # deliveries[j].path
           /\ ( j = Tag /\ deliveries[i].path \in DOMAIN deliveries[j].before )
                => /\ deliveries[i].path \in DOMAIN files
                   /\ files[deliveries[i].path]
                        = deliveries[j].before[deliveries[i].path]

\* C10's case: two messages with distinct routing keys got the same
\* timestamp and both files were written
C10_Witness ==
    /\ Len(deliveries) = 2
    /\ deliveries[1].routing_key # deliveries[2].routing_key
    /\ deliveries[1].written /\ deliveries[2].written
    /\ \E now \in Clock :
          /\ deliveries[1].path = Filepath(now, deliveries[1].routing_key)
          /\ deliveries[2].path = Filepath(now, deliveries[2].routing_key)
    /\ DOMAIN files = {deliveries[1].path, deliveries[2].path}

\* C11: the callback never opens for writing a path that holds the record of
\* an earlier, acknowledged message: no acknowledged message's file is
\* truncated or overwritten by a later message.
C11_ExclusiveCreation ==
    \A i \in Tags : \A j \in Tags :
        (i < j /\ deliveries[i].settled = "ack" /\ deliveries[j].opened)
            => deliveries[j].path # deliveries[i].path

(***************************************************************************)
(* Properties of the lifecycle.                                            *)
(***************************************************************************)
\* C12: every step of the program itself (the arrival of an interrupt
\* aside) that changes the lifecycle state takes a transition of the
\* documented state machine, so CONNECTED and CONSUMING are left by no other
\* edge; and CONSUMING is only reached after exchange_declare, queue_declare
\* and queue_bind, in that order, have all returned.
C12_LifecycleEdges ==
    /\ [][ (interrupts' = interrupts /\ Lifecycle' # Lifecycle)
           => <<Lifecycle, Lifecycle'>> \in
                { <<"INIT", "CONNECTING">>, <<"CONNECTING", "CONNECTED">>,
                  <<"CONNECTING", "FAILED">>, <<"CONNECTED", "CONSUMING">>,
                  <<"CONSUMING", "SHUTTING_DOWN">>,
                  <<"SHUTTING_DOWN", "CLOSED">> } ]_vars
    /\ [](Lifecycle = "CONSUMING" =>
            setupCalls = <<"exchange_declare", "queue_declare", "queue_bind",
                           "basic_consume">>)

(***************************************************************************)
(* Properties of the order of the callback's steps.                        *)
(***************************************************************************)
\* C13: at most one callback invocation is in progress, it is the one for
\* the last delivery, and every earlier delivery's invocation had returned
\* with a settlement call accepted before the next delivery was dispatched.
C13_SequentialHandling ==
    /\ \A i \in Tags :
          i < Len(deliveries) =>
              /\ deliveries[i].end = "returned"
              /\ deliveries[i].settled \in {"ack", "nack"}
    /\ hpc # "idle" => (deliveries # <<>> /\ deliveries[Tag].end = "running")
    /\ hpc = "idle" => \A i \in Tags : deliveries[i].end # "running"

\* C13's case: the second delivery is being handled after the first one was
\* acknowledged
C13_Witness ==
    /\ Len(deliveries) = 2
    /\ deliveries[1].settled = "ack"
    /\ deliveries[2].end = "running"
    /\ hpc = "dump"

\* C14: basic_ack is called for a delivery only after its file was opened,
\* written completely and closed; when the call is made, and until the next
\* delivery is dispatched, the file holds the whole text json.dump produces
\* for the message.
C14_AckAfterWrite ==
    \A i \in Tags :
        deliveries[i].acks >= 1 =>
            /\ deliveries[i].opened
            /\ deliveries[i].written
            /\ i = Tag =>
                  /\ deliveries[i].path \in DOMAIN files
                  /\ files[deliveries[i].path]
                        = Dumps(Loads(deliveries[i].body), 0)

\* C14's case: a message was stored and its acknowledgment accepted
C14_Witness ==
    /\ deliveries # <<>>
    /\ deliveries[Tag].settled = "ack"
    /\ deliveries[Tag].written
    /\ deliveries[Tag].path \in DOMAIN files

\* C15: when a callback invocation has ended, the file it opened exists if
\* and only if its acknowledgment was accepted; an invocation that called
\* basic_nack has left no file, complete or partial.
C15_FileIffAcked ==
    LastEnded =>
        LET left == deliveries[Tag].opened /\ deliveries[Tag].path \in DOMAIN files
        IN  /\ left <=> deliveries[Tag].settled = "ack"
            /\ deliveries[Tag].nacks >= 1 => ~left

(***************************************************************************)
(* Properties of the handles of connect().                                 *)
(***************************************************************************)
\* C16: whenever connect() is at one of its set-up calls, the last attempt
\* of this call is the one that assigned both self.connection and
\* self.channel, and both are open: the set-up never runs with a handle
\* unset or assigned by an attempt that failed.
C16_SetupAfterSuccess ==
    /\ Connected =>
         /\ attempts >= 1
         /\ assignedAt.connection = attempts
         /\ assignedAt.channel = attempts
         /\ connection = "open"
         /\ channel = "open"
    /\ setupCalls # <<>> => (connection # "unset" /\ channel # "unset")

\* C16's case: an attempt opened the connection and failed to open the
\* channel, a later attempt succeeded, and the exchange was declared
C16_Witness ==
    /\ pc = "queue_declare"
    /\ openConns = 2
    /\ assignedAt = [connection |-> 3, channel |-> 3]

\* C17: at most one broker connection opened by the processor is open at
\* any time; no connection of a failed attempt is still open when the next
\* attempt starts or when the error is propagated.
C17_NoConnectionLeak ==
    /\ openConns <= 1
    /\ pc \in {"attempt", "except"} => openConns = 0
    /\ (pc = "exit" /\ failures = 5) => openConns = 0

====
